---- MODULE Spec2Model ----
(***************************************************************************)
(* A model of the Telegram client of jooddang/eliza:                       *)
(*   src/packages/client-telegram/src/telegramClient.ts  (TelegramClient)  *)
(*   src/unnamed/part_000                                (its ./utils)     *)
(*                                                                         *)
(* Strings are sequences of one-character strings, so that split, trim,    *)
(* toUpperCase, includes and length are computed as the code computes      *)
(* them.  Every `await` on an external collaborator (runtime, transport,   *)
(* backend) is a separate action; the code between two such awaits is one  *)
(* atomic step, as in the single-threaded event loop.                      *)
(***************************************************************************)
EXTENDS Integers, Sequences, FiniteSets, TLC

VARIABLES
    config,         \* runtime.character.clientConfig.telegram and TG_TRADER
    inputs,         \* what the users send and what the runtime answers
    interestChats,  \* TelegramClient.interestChats: chat id -> ChatState
    memories,       \* the runtime's memory store (set of records)
    inflight,       \* transport sends issued and not yet completed
    delivered,      \* transport sends accepted, in the order accepted
    leftChats,      \* chats for which leaveChat succeeded
    now,            \* the clock read by Date.now()
    nextMsg,        \* number of inbound messages taken in so far
    task,           \* one record per inbound message task
    gen,            \* a direct call of the exported generateShouldRespond
    fn              \* a direct call of one of the pure utilities

vars == <<config, inputs, interestChats, memories, inflight, delivered, leftChats,
          now, nextMsg, task, gen, fn>>


-----------------------------------------------------------------------------
(* Bounds of the model                                                     *)

MaxMsgs == 2        \* inbound messages taken in (and handled at once)
MaxGenCalls == 3    \* direct calls of generateShouldRespond
MaxTextLen == 5     \* length of the texts given to splitMessage
MaxChunkLen == 3    \* largest maxLength given to splitMessage
MaxWords == 2       \* words of the texts given to cosineSimilarity
MaxIdLen == 3       \* length of the short strings given to stringToUuid
MaxPieces == 2      \* placeholders and literals of a template of composeContext

-----------------------------------------------------------------------------
(* Strings                                                                 *)

NL == "\n"

\* String.prototype.includes
Includes(s, sub) ==
    \E i \in 0..(Len(s) - Len(sub)) : SubSeq(s, i + 1, i + Len(sub)) = sub

IsSpace(c) == c \in {" ", "\n", "\t"}

\* String.prototype.trim
RECURSIVE TrimLeft(_)
TrimLeft(s) ==
    IF s # <<>> /\ IsSpace(Head(s)) THEN TrimLeft(Tail(s)) ELSE s

RECURSIVE TrimRight(_)
TrimRight(s) ==
    IF s # <<>> /\ IsSpace(s[Len(s)])
    THEN TrimRight(SubSeq(s, 1, Len(s) - 1))
    ELSE s

Trim(s) == TrimRight(TrimLeft(s))

LowerCase ==
    <<"a", "b", "c", "d", "e", "f", "g", "h", "i", "j", "k", "l", "m",
      "n", "o", "p", "q", "r", "s", "t", "u", "v", "w", "x", "y", "z">>

UpperCase ==
    <<"A", "B", "C", "D", "E", "F", "G", "H", "I", "J", "K", "L", "M",
      "N", "O", "P", "Q", "R", "S", "T", "U", "V", "W", "X", "Y", "Z">>

ToUpperChar(c) ==
    IF \E i \in 1..Len(LowerCase) : LowerCase[i] = c
    THEN UpperCase[CHOOSE i \in 1..Len(LowerCase) : LowerCase[i] = c]
    ELSE c

\* String.prototype.toUpperCase
ToUpperCase(s) == [i \in 1..Len(s) |-> ToUpperChar(s[i])]

\* n copies of the character c
Repeat(c, n) == [i \in 1..n |-> c]

\* text.split("\n"): k newlines give k + 1 lines, "" gives one empty line
RECURSIVE SplitLines(_)
SplitLines(s) ==
    LET nls == {i \in 1..Len(s) : s[i] = NL}
    IN  IF nls = {}
        THEN <<s>>
        ELSE LET i == CHOOSE k \in nls : \A j \in nls : k <= j
             IN  <<SubSeq(s, 1, i - 1)>> \o SplitLines(SubSeq(s, i + 1, Len(s)))

\* chunks.join("\n")
RECURSIVE JoinLines(_)
JoinLines(ss) ==
    IF ss = <<>> THEN <<>>
    ELSE IF Len(ss) = 1 THEN ss[1]
    ELSE ss[1] \o <<NL>> \o JoinLines(Tail(ss))

-----------------------------------------------------------------------------
(* splitMessage                                                            *)

\* the body of the for loop, from line number i of lines on, and the final push
RECURSIVE SplitLoop(_, _, _, _, _)
SplitLoop(lines, i, chunks, currentChunk, maxLength) ==
    IF i > Len(lines)
    THEN IF currentChunk # <<>> THEN Append(chunks, currentChunk) ELSE chunks
    ELSE LET line == lines[i]
         IN  IF Len(currentChunk) + Len(line) + 1 <= maxLength
             THEN SplitLoop(lines, i + 1, chunks,
                      currentChunk
                        \o (IF currentChunk # <<>> THEN <<NL>> ELSE <<>>)
                        \o line,
                      maxLength)
             ELSE SplitLoop(lines, i + 1,
                      IF currentChunk # <<>>
                      THEN Append(chunks, currentChunk) ELSE chunks,
                      line, maxLength)

\* (mutant) a chunk longer than maxLength is cut down to maxLength
splitMessageTruncating(text, maxLength) ==
    LET chunks == SplitLoop(SplitLines(text), 1, <<>>, <<>>, maxLength)
    IN  [c \in 1..Len(chunks) |->
            IF Len(chunks[c]) > maxLength
            THEN SubSeq(chunks[c], 1, maxLength) ELSE chunks[c]]

splitMessage(text, maxLength) ==
    SplitLoop(SplitLines(text), 1, <<>>, <<>>, maxLength)

-----------------------------------------------------------------------------
(* The bot, the chats, the senders and the inbound messages               *)

\* bot.botInfo, as returned by getMe
BotInfo == [id |-> 99, username |-> <<"b", "o", "t">>]

\* chat ids are held as the strings ctx.chat.id.toString() yields
GroupChat == [id |-> "-1001", type |-> "group"]
PrivateChat == [id |-> "42", type |-> "private"]
Chats == {GroupChat, PrivateChat}
ChatIds == {c.id : c \in Chats}

Alice == [id |-> 10, is_bot |-> FALSE, username |-> "alice"]
OtherBot == [id |-> 20, is_bot |-> TRUE, username |-> "otherbot"]
Self == [id |-> BotInfo.id, is_bot |-> TRUE, username |-> "bot"]

TextHi == <<"h", "i">>
TextMention == <<"@", "b", "o", "t", " ", "h", "i">>
CaptionPic == <<"p", "i", "c">>

\* A field that is absent in the Telegram message is absent in the record
\* ("text" in message).
\* f extended by the fields of g
Merge(f, g) ==
    [k \in DOMAIN f \cup DOMAIN g |-> IF k \in DOMAIN g THEN g[k] ELSE f[k]]

\* a message without its message_id
Msg(chat, from, content) == Merge([chat |-> chat, from |-> from], content)

\* a channel post: ctx.from is undefined
ChannelPost == [chat |-> GroupChat, text |-> TextHi]

\* message ids are positive
WithId(message, id) == Merge(message, [message_id |-> id])

\* clientConfig.telegram of the character, and the TG_TRADER setting
\* (mutant) every chat is on the allow-list
AllowedGroupIdsEveryChat == ChatIds

AllowedGroupIds == {GroupChat.id}

DefaultConfig ==
    [tgTrader |-> FALSE, shouldOnlyJoinInAllowedGroups |-> FALSE,
     shouldIgnoreBotMessages |-> FALSE, shouldIgnoreDirectMessages |-> FALSE]

\* The deployments checked: a configuration, the messages the users of that
\* deployment send, and the answers its runtime gives to _generateResponse.
Environments ==
    { \* the decision rules in a group chat
      [config |-> DefaultConfig,
       messages |-> {Msg(GroupChat, Alice, [text |-> TextHi]),
                     Msg(GroupChat, Alice, [text |-> TextMention])},
       responses |-> {"one"}],
      \* two chats
      [config |-> DefaultConfig,
       messages |-> {Msg(PrivateChat, Alice, [text |-> TextMention]),
                     Msg(GroupChat, OtherBot, [text |-> TextHi])},
       responses |-> {"one"}],
      \* photos, captions and messages with no content
      [config |-> DefaultConfig,
       messages |-> {Msg(PrivateChat, Alice,
                         [caption |-> CaptionPic, photo |-> TRUE]),
                     Msg(GroupChat, Alice,
                         [caption |-> CaptionPic, photo |-> TRUE]),
                     Msg(GroupChat, Alice, [photo |-> TRUE]),
                     Msg(PrivateChat, Alice, [sticker |-> TRUE])},
       responses |-> {"one"}],
      \* responses of several chunks, and no response
      [config |-> DefaultConfig,
       messages |-> {Msg(PrivateChat, Alice, [text |-> TextHi])},
       responses |-> {"empty", "noText", "two"}],
      \* the backend of the trader is called before handleMessage
      [config |-> [DefaultConfig EXCEPT !.tgTrader = TRUE],
       messages |-> {Msg(GroupChat, Alice, [text |-> TextHi]),
                     Msg(GroupChat, OtherBot, [text |-> TextMention]),
                     ChannelPost},
       responses |-> {"one"}],
      \* the filters of handleMessage
      [config |-> [DefaultConfig EXCEPT !.shouldIgnoreBotMessages = TRUE,
                                        !.shouldIgnoreDirectMessages = TRUE],
       messages |-> {Msg(GroupChat, OtherBot, [text |-> TextHi]),
                     Msg(PrivateChat, Alice, [text |-> TextHi]),
                     Msg(GroupChat, Alice, [sticker |-> TRUE]),
                     Msg(GroupChat, Alice, [text |-> TextHi])},
       responses |-> {"one"}],
      \* the allow-list
      [config |-> [DefaultConfig EXCEPT !.shouldOnlyJoinInAllowedGroups = TRUE],
       messages |-> {Msg(PrivateChat, Alice, [text |-> TextHi]),
                     Msg(GroupChat, Alice, [text |-> TextMention]),
                     Msg(GroupChat, Self, [text |-> TextHi])},
       responses |-> {"one"}] }

\* the description processImage returns: `[Image: ${title}\n${description}]`
ImageDescription == <<"[", "I", "m", "g", "]">>

-----------------------------------------------------------------------------
(* The responses the runtime's memory search may give to _generateResponse *)

TelegramMaxLength == 4096

LongLine == Repeat("x", TelegramMaxLength)

ResponseIds == {"empty", "noText", "one", "two", "three"}

\* response[0]?.content for each answer of the search ("empty": no record)
ResponseContents ==
    [r \in ResponseIds \ {"empty"} |->
        CASE r = "noText" -> [text |-> <<>>, action |-> "NONE"]
          [] r = "one" -> [text |-> <<"o", "k">>, action |-> "NONE"]
          [] r = "two" ->
                [text |-> LongLine \o <<NL, "b", "y", "e">>,
                 action |-> "FOLLOW_ROOM"]
          [] r = "three" ->
                [text |-> <<"h", "i", NL>> \o LongLine \o <<NL, "b", "y", "e">>,
                 action |-> "NONE"]]

\* this.splitMessage(content.text || "", 4096) for each of them
ResponseChunks ==
    [r \in ResponseIds \ {"empty"} |->
        splitMessage(ResponseContents[r].text, TelegramMaxLength)]

\* content.text is missing or empty
HasNoText == {r \in ResponseIds \ {"empty"} : ResponseContents[r].text = <<>>}

-----------------------------------------------------------------------------
(* The Response-Decision Engine: _shouldRespond and its helpers            *)

\* "text" in message ? message.text : "caption" in message ? caption : ""
MessageText(message) ==
    IF "text" \in DOMAIN message THEN message.text
    ELSE IF "caption" \in DOMAIN message THEN message.caption
    ELSE <<>>

\* (mutant) the mention is never seen
isMessageForMeNever(message) == FALSE

\* message.text.includes(`@${this.bot.botInfo.username}`); the caller has
\* checked that message.text is there (see shouldRespond)
isMessageForMe(message) ==
    Includes(message.text, <<"@">> \o BotInfo.username)

shouldRespondBasedOnContext(chatState) ==
    chatState.currentHandler = "telegramMessageHandler"

\* _shouldRespond up to its first await or its return:
\*   "throw"    message.text is undefined and .includes raises a TypeError
\*   "true"     returns true            "false"   returns false
\*   "delegate" calls generateShouldRespond and awaits it
shouldRespond(message, chats) ==
    IF "text" \notin DOMAIN message THEN "throw"
    ELSE IF isMessageForMe(message) THEN "true"
    ELSE IF message.chat.type = "private" THEN "true"
    ELSE IF message.chat.id \in DOMAIN chats
    THEN IF shouldRespondBasedOnContext(chats[message.chat.id])
         THEN "true" ELSE "false"
    ELSE IF MessageText(message) # <<>> THEN "delegate"
    ELSE "false"

-----------------------------------------------------------------------------
(* The Interest Tracker: the update of interestChats in handleMessage      *)

NoChats == [c \in {} |-> 0]

\* (mutant) a new ChatState is given the message handler
NewChatStateWithHandler ==
    [currentHandler |-> "telegramMessageHandler", lastMessageSent |-> 0,
     messages |-> <<>>]

NewChatState ==
    [currentHandler |-> "undefined", lastMessageSent |-> 0, messages |-> <<>>]

\* the record pushed; message_id is not in the code's record: it names the
\* message the record was made from, for the properties below
TrackedRecord(message) ==
    [userId |-> message.from.id,
     userName |-> message.from.username,
     content |-> [text |-> MessageText(message), source |-> "telegram"],
     message_id |-> message.message_id]

\* (mutant) the history keeps the last message only
TrackKeepingLast(chats, message, time) ==
    LET id == message.chat.id
        new == [NewChatState EXCEPT !.messages = <<TrackedRecord(message)>>,
                                    !.lastMessageSent = time]
    IN  [c \in DOMAIN chats \cup {id} |-> IF c = id THEN new ELSE chats[c]]

\* (mutant) the update stamps lastMessageSent of every chat
TrackStampingAll(chats, message, time) ==
    LET id == message.chat.id
        old == IF id \in DOMAIN chats THEN chats[id] ELSE NewChatState
        new == [old EXCEPT !.messages = Append(@, TrackedRecord(message)),
                           !.lastMessageSent = time]
    IN  [c \in DOMAIN chats \cup {id} |->
            IF c = id THEN new ELSE [chats[c] EXCEPT !.lastMessageSent = time]]

Track(chats, message, time) ==
    LET id == message.chat.id
        old == IF id \in DOMAIN chats THEN chats[id] ELSE NewChatState
        new == [old EXCEPT !.messages = Append(@, TrackedRecord(message)),
                           !.lastMessageSent = time]
    IN  [c \in DOMAIN chats \cup {id} |-> IF c = id THEN new ELSE chats[c]]

-----------------------------------------------------------------------------
(* Sending a response: sendMessageInChunks and the callback                *)

\* (mutant) the sends are all issued at once, none is awaited
ChunksToIssueAtOnce(k, done) == IF done = 0 THEN 1..k ELSE {}

\* the chunks whose send is issued once `done` sends of the k have completed
\* (the for loop awaits each send before it issues the next)
ChunksToIssue(k, done) == IF done < k THEN {done + 1} ELSE {}

\* reply_parameters of the i-th send (i counts from 1 here, from 0 in the code)
ReplyParameters(i, replyToMessageId) ==
    IF i = 1 /\ replyToMessageId # 0 THEN replyToMessageId ELSE 0

\* (mutant) only the first of several sent messages is a continuation
MemoryActionFirstOnly(i, n, contentAction) ==
    IF i = 1 /\ n > 1 THEN "CONTINUE" ELSE contentAction

\* memory.content.action of the i-th of n sent messages
MemoryAction(i, n, contentAction) ==
    IF i # n THEN "CONTINUE" ELSE contentAction

ChunkSend(t, chat, i, replyTo) ==
    [task |-> t, chat |-> chat, kind |-> "chunk", chunk |-> i,
     reply_to |-> ReplyParameters(i, replyTo)]

NoticeSend(t, chat, kind) ==
    [task |-> t, chat |-> chat, kind |-> kind, chunk |-> 0, reply_to |-> 0]

-----------------------------------------------------------------------------
(* The message tasks                                                       *)

TaskIds == 1..MaxMsgs

IdleTask ==
    [pc |-> "idle", msg |-> [message_id |-> 0], imageInfo |-> FALSE,
     decision |-> "none", delegated |-> FALSE, resp |-> "none",
     sent |-> 0, recorded |-> 0, outcome |-> "none", error |-> "none",
     image |-> "none"]

Finish(r, outcome) == [r EXCEPT !.pc = "done", !.outcome = outcome]

\* how an awaited call of the runtime or the transport ends: it resolves, or
\* rejects with an error whose response.error_code is 403, or with another
\* error
CallResults == {"ok", "403", "other"}

\* the catch of handleMessage: the error is logged and handleMessage
\* returns normally.  Every awaited call of handleMessage is inside its
\* try, so no error of the pipeline reaches the catch of the message
\* handler, which alone sends the error notice.
HandleMessageCatch(r, code) ==
    [r EXCEPT !.pc = "done", !.outcome = "error", !.error = code]

At(r, pc) == [r EXCEPT !.pc = pc]

\* (mutant) the tracker is updated before the filters are applied
HandleMessageEnterTrackFirst(t, r, time) ==
    LET message == r.msg
        filtered == \/ "from" \notin DOMAIN message
                    \/ config.shouldIgnoreBotMessages /\ message.from.is_bot
                    \/ config.shouldIgnoreDirectMessages
                          /\ message.chat.type = "private"
    IN  /\ interestChats' =
               IF "from" \in DOMAIN message /\ MessageText(message) # <<>>
               THEN Track(interestChats, message, time)
               ELSE interestChats
        /\ task' = [task EXCEPT ![t] =
                       IF filtered THEN Finish(r, "dropped")
                       ELSE At(r, "ensureConnection")]

\* handleMessage from its entry to its first await (ensureConnection)
HandleMessageEnter(t, r, time) ==
    LET message == r.msg
    IN  IF "from" \notin DOMAIN message
        THEN /\ task' = [task EXCEPT ![t] = Finish(r, "dropped")]
             /\ UNCHANGED interestChats
        ELSE IF config.shouldIgnoreBotMessages /\ message.from.is_bot
        THEN /\ task' = [task EXCEPT ![t] = Finish(r, "dropped")]
             /\ UNCHANGED interestChats
        ELSE IF config.shouldIgnoreDirectMessages
                  /\ message.chat.type = "private"
        THEN /\ task' = [task EXCEPT ![t] = Finish(r, "dropped")]
             /\ UNCHANGED interestChats
        ELSE /\ interestChats' =
                    IF MessageText(message) # <<>>
                    THEN Track(interestChats, message, time)
                    ELSE interestChats
             /\ task' = [task EXCEPT ![t] = At(r, "ensureConnection")]

\* the message handler after isGroupAuthorized returned true
AfterAuthorized(t, r, time) ==
    IF config.tgTrader
    THEN /\ task' = [task EXCEPT ![t] =
                        IF "from" \notin DOMAIN r.msg
                        THEN Finish(r, "dropped")
                        ELSE At(r, "getOrCreateRecommenderInBe")]
         /\ UNCHANGED interestChats
    ELSE HandleMessageEnter(t, r, time)

\* An update of type message arrives: bot.on("message") runs
\* isGroupAuthorized and all that follows it up to the first call that
\* leaves the process.  (An await on a promise that is already settled
\* resumes in the same turn of the event loop, in the order the tasks
\* started, and the code before it touches no shared state.)  Telegram
\* delivers no update of a chat the bot has left.
Intake(t) ==
    /\ t = nextMsg + 1
    /\ t <= MaxMsgs
    /\ nextMsg' = t
    /\ now' = now + 1
    /\ \E m \in {x \in inputs.messages : x.chat.id \notin leftChats} :
         LET message == WithId(m, t)
             r == [task[t] EXCEPT !.msg = message]
         IN  IF "from" \in DOMAIN message /\ message.from.id = BotInfo.id
             THEN /\ task' = [task EXCEPT ![t] = Finish(r, "unauthorized")]
                  /\ UNCHANGED <<interestChats, inflight>>
             ELSE IF config.shouldOnlyJoinInAllowedGroups
                       /\ message.chat.id \notin AllowedGroupIds
             THEN /\ task' = [task EXCEPT ![t] = At(r, "authReply")]
                  /\ inflight' = inflight
                        \cup {NoticeSend(t, message.chat.id, "farewell")}
                  /\ UNCHANGED interestChats
             ELSE /\ AfterAuthorized(t, r, now')
                  /\ UNCHANGED inflight
    /\ UNCHANGED <<config, inputs, memories, delivered, leftChats, gen, fn>>

\* isGroupAuthorized: ctx.reply("Not authorized. Leaving.") completes
AuthReplyReturns(t) ==
    /\ task[t].pc = "authReply"
    /\ LET s == NoticeSend(t, task[t].msg.chat.id, "farewell")
       IN  /\ inflight' = inflight \ {s}
           /\ \E ok \in BOOLEAN :
                IF ok
                THEN /\ delivered' = Append(delivered, s)
                     /\ task' = [task EXCEPT ![t] = At(@, "authLeave")]
                ELSE /\ UNCHANGED delivered
                     /\ task' = [task EXCEPT ![t] = Finish(@, "unauthorized")]
    /\ UNCHANGED <<config, inputs, interestChats, memories, leftChats, now, nextMsg,
                   gen, fn>>

\* isGroupAuthorized: ctx.leaveChat() completes
AuthLeaveReturns(t) ==
    /\ task[t].pc = "authLeave"
    /\ \E ok \in BOOLEAN :
         leftChats' = IF ok THEN leftChats \cup {task[t].msg.chat.id}
                      ELSE leftChats
    /\ task' = [task EXCEPT ![t] = Finish(@, "unauthorized")]
    /\ UNCHANGED <<config, inputs, interestChats, memories, inflight, delivered, now,
                   nextMsg, gen, fn>>

\* getOrCreateRecommenderInBe completes; its error is caught and logged
RecommenderReturns(t) ==
    /\ task[t].pc = "getOrCreateRecommenderInBe"
    /\ HandleMessageEnter(t, task[t], now)
    /\ UNCHANGED <<config, inputs, memories, inflight, delivered, leftChats, now,
                   nextMsg, gen, fn>>

HasImage(message) == "photo" \in DOMAIN message

\* `${messageText} ${imageInfo.description}` or messageText
FullText(message, imageInfo) ==
    IF imageInfo
    THEN MessageText(message) \o <<" ">> \o ImageDescription
    ELSE MessageText(message)

\* (mutant) a message whose image got no description is skipped
AfterProcessImageNeedsDescription(r, imageInfo) ==
    IF ~imageInfo /\ HasImage(r.msg)
    THEN Finish(r, "dropped")
    ELSE [r EXCEPT !.pc = "createMemory", !.imageInfo = imageInfo]

\* handleMessage after processImage returned: the empty-content check and
\* the call of createMemory
AfterProcessImage(r, imageInfo) ==
    IF FullText(r.msg, imageInfo) = <<>>
    THEN Finish(r, "dropped")
    ELSE [r EXCEPT !.pc = "createMemory", !.imageInfo = imageInfo]

\* runtime.ensureConnection completes
EnsureConnectionReturns(t) ==
    /\ task[t].pc = "ensureConnection"
    /\ \E code \in CallResults : LET ok == (code = "ok") IN
         task' = [task EXCEPT ![t] =
                    IF ~ok THEN HandleMessageCatch(@, code)
                    ELSE IF HasImage(@.msg) THEN At(@, "processImage")
                    ELSE AfterProcessImage(@, FALSE)]
    /\ UNCHANGED <<config, inputs, interestChats, memories, inflight, delivered,
                   leftChats, now, nextMsg, gen, fn>>

\* processImage completes: getFileLink and describeImage both answered, or
\* one of them failed, or there is no description service; every failure is
\* caught inside processImage, which then returns null.  Nothing shared is
\* read or written between its two awaits.
ProcessImageReturns(t) ==
    /\ task[t].pc = "processImage"
    /\ \E result \in {"described", "getFileLinkFails", "describeImageFails",
                      "noService"} :
         task' = [task EXCEPT ![t] =
                    [AfterProcessImage(@, result = "described")
                        EXCEPT !.image = result]]
    /\ UNCHANGED <<config, inputs, interestChats, memories, inflight, delivered,
                   leftChats, now, nextMsg, gen, fn>>

InboundMemory(r) ==
    [kind |-> "inbound", msg |-> r.msg.message_id, chunk |-> 0,
     text |-> FullText(r.msg, r.imageInfo), action |-> "none"]

\* runtime.messageManager.createMemory(memory) completes
CreateMemoryReturns(t) ==
    /\ task[t].pc = "createMemory"
    /\ \E code \in CallResults : LET ok == (code = "ok") IN
         /\ memories' = IF ok THEN memories \cup {InboundMemory(task[t])}
                        ELSE memories
         /\ task' = [task EXCEPT ![t] =
                        IF ok THEN At(@, "composeState") ELSE HandleMessageCatch(@, code)]
    /\ UNCHANGED <<config, inputs, interestChats, inflight, delivered, leftChats, now,
                   nextMsg, gen, fn>>

\* runtime.composeState(memory) completes
ComposeStateReturns(t) ==
    /\ task[t].pc = "composeState"
    /\ \E code \in CallResults : LET ok == (code = "ok") IN
         task' = [task EXCEPT ![t] =
                    IF ok THEN At(@, "updateRecentMessageState")
                    ELSE HandleMessageCatch(@, code)]
    /\ UNCHANGED <<config, inputs, interestChats, memories, inflight, delivered,
                   leftChats, now, nextMsg, gen, fn>>

\* (mutant) a response is generated whatever _shouldRespond returned
DecideRespondsAnyway(r, chats) ==
    LET d == shouldRespond(r.msg, chats)
    IN  [r EXCEPT !.pc = "generateResponseCreateMemory",
                  !.decision = IF d = "true" THEN "RESPOND" ELSE "IGNORE"]

\* handleMessage from the call of _shouldRespond to the next await
Decide(r, chats) ==
    LET d == shouldRespond(r.msg, chats)
    IN  CASE d = "throw" ->
               [HandleMessageCatch(r, "other") EXCEPT !.decision = "raised"]
          [] d = "true" ->
               [r EXCEPT !.pc = "generateResponseCreateMemory",
                         !.decision = "RESPOND"]
          [] d = "false" ->
               [r EXCEPT !.pc = "evaluate", !.decision = "IGNORE"]
          [] d = "delegate" ->
               [r EXCEPT !.pc = "generateShouldRespond", !.delegated = TRUE]

\* runtime.updateRecentMessageState(state) completes; _shouldRespond runs
UpdateRecentMessageStateReturns(t) ==
    /\ task[t].pc = "updateRecentMessageState"
    /\ \E code \in CallResults : LET ok == (code = "ok") IN
         task' = [task EXCEPT ![t] =
                    IF ok THEN Decide(@, interestChats) ELSE HandleMessageCatch(@, code)]
    /\ UNCHANGED <<config, inputs, interestChats, memories, inflight, delivered,
                   leftChats, now, nextMsg, gen, fn>>

PromptMemory(r) ==
    [kind |-> "prompt", msg |-> r.msg.message_id, chunk |-> 0,
     text |-> <<>>, action |-> "none"]

\* _generateResponse: createMemory(memory) completes; an error is caught in
\* _generateResponse, which returns null, and handleMessage returns
GenerateResponseCreateMemoryReturns(t) ==
    /\ task[t].pc = "generateResponseCreateMemory"
    /\ \E ok \in BOOLEAN :
         /\ memories' = IF ok THEN memories \cup {PromptMemory(task[t])}
                        ELSE memories
         /\ task' = [task EXCEPT ![t] =
                        IF ok THEN At(@, "generateResponseSearch")
                        ELSE Finish(@, "noResponse")]
    /\ UNCHANGED <<config, inputs, interestChats, inflight, delivered, leftChats, now,
                   nextMsg, gen, fn>>

\* _generateResponse: searchMemoriesByEmbedding completes; with a response
\* that has a text the callback runs and sendMessageInChunks issues its
\* first send
GenerateResponseSearchReturns(t) ==
    /\ task[t].pc = "generateResponseSearch"
    /\ \E res \in inputs.responses \cup {"throw"} :
         IF res \in {"throw", "empty"} \cup HasNoText
         THEN /\ task' = [task EXCEPT ![t] = Finish(@, "noResponse")]
              /\ UNCHANGED inflight
         ELSE LET k == Len(ResponseChunks[res])
                  m == task[t].msg
              IN  /\ task' = [task EXCEPT ![t] =
                         [@ EXCEPT !.resp = res,
                                   !.pc = IF k = 0
                                          THEN "updateRecentMessageStateAgain"
                                          ELSE "sendMessage"]]
                  /\ inflight' = inflight \cup
                         {ChunkSend(t, m.chat.id, i, m.message_id) :
                            i \in ChunksToIssue(k, 0)}
    /\ UNCHANGED <<config, inputs, interestChats, memories, delivered, leftChats, now,
                   nextMsg, gen, fn>>

\* ctx.telegram.sendMessage completes: the sent message is pushed and the
\* loop goes on; after the last one the callback starts to record memories
SendMessageReturns(t) ==
    /\ task[t].pc = "sendMessage"
    /\ \E s \in inflight :
         /\ s.task = t
         /\ s.kind = "chunk"
         /\ \E code \in CallResults : LET ok == (code = "ok") IN
              LET k == Len(ResponseChunks[task[t].resp])
                  m == task[t].msg
                  done == task[t].sent + 1
              IN  IF ok
                  THEN /\ delivered' = Append(delivered, s)
                       /\ inflight' = (inflight \ {s}) \cup
                              {ChunkSend(t, m.chat.id, i, m.message_id) :
                                 i \in ChunksToIssue(k, done)}
                       /\ task' = [task EXCEPT ![t] =
                              [@ EXCEPT !.sent = done,
                                        !.pc = IF done = k
                                               THEN "createResponseMemory"
                                               ELSE "sendMessage"]]
                  ELSE /\ UNCHANGED delivered
                       /\ inflight' = inflight \ {s}
                       /\ task' = [task EXCEPT ![t] = HandleMessageCatch(@, code)]
    /\ UNCHANGED <<config, inputs, interestChats, memories, leftChats, now, nextMsg,
                   gen, fn>>

ResponseMemory(r, i) ==
    [kind |-> "response", msg |-> r.msg.message_id, chunk |-> i,
     text |-> <<>>,
     action |-> MemoryAction(i, r.sent, ResponseContents[r.resp].action)]

\* callback: createMemory(memory) for the next sent message completes
CreateResponseMemoryReturns(t) ==
    /\ task[t].pc = "createResponseMemory"
    /\ \E code \in CallResults : LET ok == (code = "ok") IN
         LET i == task[t].recorded + 1
         IN  IF ok
             THEN /\ memories' = memories \cup {ResponseMemory(task[t], i)}
                  /\ task' = [task EXCEPT ![t] =
                         [@ EXCEPT !.recorded = i,
                                   !.pc = IF i = task[t].sent
                                          THEN "updateRecentMessageStateAgain"
                                          ELSE "createResponseMemory"]]
             ELSE /\ UNCHANGED memories
                  /\ task' = [task EXCEPT ![t] = HandleMessageCatch(@, code)]
    /\ UNCHANGED <<config, inputs, interestChats, inflight, delivered, leftChats, now,
                   nextMsg, gen, fn>>

\* the second updateRecentMessageState (after the callback) completes
UpdateRecentMessageStateAgainReturns(t) ==
    /\ task[t].pc = "updateRecentMessageStateAgain"
    /\ \E code \in CallResults : LET ok == (code = "ok") IN
         task' = [task EXCEPT ![t] =
                    IF ok THEN At(@, "processActions") ELSE HandleMessageCatch(@, code)]
    /\ UNCHANGED <<config, inputs, interestChats, memories, inflight, delivered,
                   leftChats, now, nextMsg, gen, fn>>

\* runtime.processActions completes
ProcessActionsReturns(t) ==
    /\ task[t].pc = "processActions"
    /\ \E code \in CallResults : LET ok == (code = "ok") IN
         task' = [task EXCEPT ![t] =
                    IF ok THEN At(@, "evaluate") ELSE HandleMessageCatch(@, code)]
    /\ UNCHANGED <<config, inputs, interestChats, memories, inflight, delivered,
                   leftChats, now, nextMsg, gen, fn>>

\* runtime.evaluate completes and handleMessage returns
EvaluateReturns(t) ==
    /\ task[t].pc = "evaluate"
    /\ \E code \in CallResults : LET ok == (code = "ok") IN
         task' = [task EXCEPT ![t] =
                    IF ~ok THEN HandleMessageCatch(@, code)
                    ELSE IF @.decision = "RESPOND" THEN Finish(@, "responded")
                    ELSE Finish(@, "ignored")]
    /\ UNCHANGED <<config, inputs, interestChats, memories, inflight, delivered,
                   leftChats, now, nextMsg, gen, fn>>

-----------------------------------------------------------------------------
(* The specification of the message pipeline                               *)

GenIdle ==
    [pc |-> "idle", calls |-> 0, failed |-> "none", found |-> FALSE,
     hasText |-> FALSE, answer |-> <<>>, result |-> <<>>, raised |-> FALSE]

FnIdle == [pc |-> "idle"]

PipelineInit ==
    /\ interestChats = NoChats
    /\ inflight = {}
    /\ delivered = <<>>
    /\ leftChats = {}
    /\ now = 0
    /\ nextMsg = 0
    /\ task = [t \in TaskIds |-> IdleTask]

Init ==
    /\ \E e \in Environments :
         /\ config = e.config
         /\ inputs = [messages |-> e.messages, responses |-> e.responses]
    /\ PipelineInit
    /\ memories = {}
    /\ gen = GenIdle
    /\ fn = FnIdle

\* one step of the task of message t
Step(t) ==
    \/ Intake(t)
    \/ AuthReplyReturns(t)
    \/ AuthLeaveReturns(t)
    \/ RecommenderReturns(t)
    \/ EnsureConnectionReturns(t)
    \/ ProcessImageReturns(t)
    \/ CreateMemoryReturns(t)
    \/ ComposeStateReturns(t)
    \/ UpdateRecentMessageStateReturns(t)
    \/ GenerateResponseCreateMemoryReturns(t)
    \/ GenerateResponseSearchReturns(t)
    \/ SendMessageReturns(t)
    \/ CreateResponseMemoryReturns(t)
    \/ UpdateRecentMessageStateAgainReturns(t)
    \/ ProcessActionsReturns(t)
    \/ EvaluateReturns(t)

Next == \E t \in TaskIds : Step(t)

\* Inbound messages handled by overlapping tasks.  No step of Next leaves a
\* task waiting for generateShouldRespond (GenerationNeverAwaited below), so
\* the steps of that call appear in SpecGenerate only.
Spec == Init /\ [][Next]_vars

GenerationNeverAwaited ==
    \A t \in TaskIds : task[t].pc # "generateShouldRespond"

-----------------------------------------------------------------------------
(* One inbound message, with a response of up to three chunks              *)

LongResponses ==
    [config |-> DefaultConfig,
     messages |-> {Msg(PrivateChat, Alice, [text |-> TextHi]),
                   Msg(GroupChat, Alice, [text |-> TextMention])},
     responses |-> {"one", "two", "three"}]

InitSingle ==
    /\ \E e \in Environments \cup {LongResponses} :
         /\ config = e.config
         /\ inputs = [messages |-> e.messages, responses |-> e.responses]
    /\ PipelineInit
    /\ memories = {}
    /\ gen = GenIdle
    /\ fn = FnIdle

NextSingle == Step(1)

SpecSingle == InitSingle /\ [][NextSingle]_vars

-----------------------------------------------------------------------------
(* generateShouldRespond, called on its own                                *)

RESPOND == <<"R", "E", "S", "P", "O", "N", "D">>
IGNORE == <<"I", "G", "N", "O", "R", "E">>

\* the texts of the record the search may find
AnswerTexts ==
    { RESPOND,
      <<" ", "r", "e", "s", "p", "o", "n", "d", "\n">>,
      <<"R", "e", "s", "p", "o", "n", "d">>,
      <<"R", "E", "S", "P", "O", "N", "D", "!">>,
      <<"R", "E", "S", "P", "O", "N", "D", " ", "N", "O", "W">>,
      IGNORE,
      <<"i", "g", "n", "o", "r", "e", " ">>,
      <<"S", "T", "O", "P">>,
      <<"s", "t", "o", "p">>,
      <<"y", "e", "s">>,
      <<" ", " ">>,
      <<>> }

\* what searchMemoriesByEmbedding resolves to: no record, a record whose
\* content has no text, or a record with a text
Answers ==
    {[found |-> FALSE], [found |-> TRUE]}
      \cup {[found |-> TRUE, text |-> s] : s \in AnswerTexts}

\* response[0]?.content?.text?.trim().toUpperCase() || "IGNORE"
RawDecision(answer) ==
    IF answer.found /\ "text" \in DOMAIN answer
          /\ ToUpperCase(Trim(answer.text)) # <<>>
    THEN ToUpperCase(Trim(answer.text))
    ELSE IGNORE

\* (mutant) the decision is returned without being validated
DecisionUnvalidated(answer) == RawDecision(answer)

\* the validation of the decision: anything but the two tokens is IGNORE
Decision(answer) ==
    IF RawDecision(answer) # RESPOND /\ RawDecision(answer) # IGNORE
    THEN IGNORE
    ELSE RawDecision(answer)

\* (mutant) an error makes the bot respond
OnGenerateErrorFailOpen == [result |-> RESPOND, raised |-> FALSE]

\* the catch block of generateShouldRespond
OnGenerateError == [result |-> IGNORE, raised |-> FALSE]

ShouldRespondPrompt(n) ==
    [kind |-> "shouldRespondPrompt", msg |-> 0, chunk |-> n, text |-> <<>>,
     action |-> "none"]

GenerateCaught(step) ==
    [gen EXCEPT !.pc = "returned", !.failed = step,
                !.result = OnGenerateError.result,
                !.raised = OnGenerateError.raised]

\* generateShouldRespond is called; it runs to its first await
GenerateShouldRespondCall ==
    /\ gen.pc \in {"idle", "returned"}
    /\ gen.calls < MaxGenCalls
    /\ gen' = [GenIdle EXCEPT !.pc = "createMemory", !.calls = gen.calls + 1]
    /\ UNCHANGED <<config, inputs, interestChats, memories, inflight,
                   delivered, leftChats, now, nextMsg, task, fn>>

\* runtime.messageManager.createMemory(memory) completes
GenerateCreateMemoryReturns ==
    /\ gen.pc = "createMemory"
    /\ \E ok \in BOOLEAN :
         IF ok
         THEN /\ memories' = memories \cup {ShouldRespondPrompt(gen.calls)}
              /\ gen' = [gen EXCEPT !.pc = "composeState"]
         ELSE /\ UNCHANGED memories
              /\ gen' = GenerateCaught("createMemory")
    /\ UNCHANGED <<config, inputs, interestChats, inflight, delivered,
                   leftChats, now, nextMsg, task, fn>>

\* runtime.composeState(memory) completes
GenerateComposeStateReturns ==
    /\ gen.pc = "composeState"
    /\ \E ok \in BOOLEAN :
         gen' = IF ok THEN [gen EXCEPT !.pc = "search"]
                ELSE GenerateCaught("composeState")
    /\ UNCHANGED <<config, inputs, interestChats, memories, inflight,
                   delivered, leftChats, now, nextMsg, task, fn>>

\* searchMemoriesByEmbedding completes and the decision is returned
GenerateSearchReturns ==
    /\ gen.pc = "search"
    /\ \/ gen' = GenerateCaught("search")
       \/ \E answer \in Answers :
            gen' = [gen EXCEPT !.pc = "returned",
                               !.found = answer.found,
                               !.hasText = "text" \in DOMAIN answer,
                               !.answer = IF "text" \in DOMAIN answer
                                          THEN answer.text ELSE <<>>,
                               !.result = Decision(answer)]
    /\ UNCHANGED <<config, inputs, interestChats, memories, inflight,
                   delivered, leftChats, now, nextMsg, task, fn>>

InitGenerate ==
    /\ config = DefaultConfig
    /\ inputs = [messages |-> {}, responses |-> {}]
    /\ PipelineInit
    /\ memories = {}
    /\ gen = GenIdle
    /\ fn = FnIdle

NextGenerate ==
    \/ GenerateShouldRespondCall
    \/ GenerateCreateMemoryReturns
    \/ GenerateComposeStateReturns
    \/ GenerateSearchReturns

SpecGenerate == InitGenerate /\ [][NextGenerate]_vars

-----------------------------------------------------------------------------
(* splitMessage, called on its own                                         *)

Alphabet == {"a", "b", NL}

Texts == UNION {[1..n -> Alphabet] : n \in 0..MaxTextLen}

SplitMessageCall ==
    /\ fn.pc = "called"
    /\ fn' = [fn EXCEPT !.pc = "returned",
                        !.ret = splitMessage(fn.text, fn.maxLength)]
    /\ UNCHANGED <<config, inputs, interestChats, memories, inflight,
                   delivered, leftChats, now, nextMsg, task, gen>>

InitSplit ==
    /\ config = DefaultConfig
    /\ inputs = [messages |-> {}, responses |-> {}]
    /\ PipelineInit
    /\ memories = {}
    /\ gen = GenIdle
    /\ \E text \in Texts, maxLength \in 1..MaxChunkLen :
         fn = [pc |-> "called", text |-> text, maxLength |-> maxLength,
               ret |-> <<>>]

NextSplit == SplitMessageCall

SpecSplit == InitSplit /\ [][NextSplit]_vars

-----------------------------------------------------------------------------
(* Properties                                                              *)

Mention == <<"@", "b", "o", "t">>

\* _shouldRespond has run for message t
Decided(t) == task[t].decision # "none" \/ task[t].delegated

HasBodyMention(message) ==
    /\ "text" \in DOMAIN message
    /\ \E i \in 1..Len(message.text) :
         /\ i + 3 <= Len(message.text)
         /\ <<message.text[i], message.text[i + 1], message.text[i + 2],
              message.text[i + 3]>> = Mention

HasTextualContent(message) ==
    \/ "text" \in DOMAIN message /\ message.text # <<>>
    \/ "caption" \in DOMAIN message /\ message.caption # <<>>

NoActiveHandler(chatId) ==
    \/ chatId \notin DOMAIN interestChats
    \/ interestChats[chatId].currentHandler = "undefined"

DeliveredChunks(t) ==
    {i \in 1..Len(delivered) :
        delivered[i].task = t /\ delivered[i].kind = "chunk"}

InflightChunks(t) == {s \in inflight : s.task = t /\ s.kind = "chunk"}

ResponseMemories(t) == {m \in memories : m.kind = "response" /\ m.msg = t}

\* C1: a group-chat message that reached decide through the pipeline, does
\* not mention the agent, carries a body or a caption, and whose chat has no
\* active currentHandler, has its decision delegated to the generation
\* service.  (Refuted: the chat's ChatState exists by then, and decide
\* returns the context check, false, without calling the service.)
C1_DecisionIsDelegated ==
    \A t \in TaskIds :
        ( /\ Decided(t)
          /\ task[t].msg.chat.type = "group"
          /\ ~HasBodyMention(task[t].msg)
          /\ HasTextualContent(task[t].msg)
          /\ NoActiveHandler(task[t].msg.chat.id) )
        => task[t].delegated

\* C2: a message whose text contains "@" followed by the agent's handle is
\* answered RESPOND, in either chat type and whatever the tracker holds, and
\* the generation delegate is not invoked for it.
C2_MentionResponds ==
    \A t \in TaskIds :
        (Decided(t) /\ HasBodyMention(task[t].msg))
        => (task[t].decision = "RESPOND" /\ ~task[t].delegated)

\* a mention in the group chat, decided when the chat's history already
\* holds two messages
C2_Witness ==
    \E t \in TaskIds :
        /\ HasBodyMention(task[t].msg)
        /\ task[t].msg.chat = GroupChat
        /\ task[t].decision = "RESPOND"
        /\ GroupChat.id \in DOMAIN interestChats
        /\ Len(interestChats[GroupChat.id].messages) = 2

\* C3: a message in a private chat that passed the filter and does not
\* mention the agent is answered RESPOND, whether its textual content is a
\* body or a caption.  (Refuted: a caption-only message has no text field,
\* and the mention check raises before the chat type is looked at.)
C3_PrivateChatResponds ==
    \A t \in TaskIds :
        ( /\ Decided(t)
          /\ task[t].msg.chat.type = "private"
          /\ ~HasBodyMention(task[t].msg)
          /\ HasTextualContent(task[t].msg) )
        => task[t].decision = "RESPOND"

\* C4: when a call made for the decision (writing the prompt memory,
\* composing state, searching) raises, generateShouldRespond returns IGNORE,
\* never RESPOND, and raises nothing itself.
C4_GenerationErrorIgnores ==
    (gen.pc = "returned" /\ gen.failed # "none")
    => (gen.result = IGNORE /\ gen.result # RESPOND /\ ~gen.raised)

\* the second call fails in composeState, after its prompt memory was written
C4_Witness ==
    /\ gen.pc = "returned"
    /\ gen.calls = 2
    /\ gen.failed = "composeState"
    /\ ShouldRespondPrompt(2) \in memories

\* C5: generateShouldRespond returns RESPOND only when the answer found,
\* trimmed and uppercased, is exactly RESPOND; every other answer (none, no
\* text, empty, STOP, ...) gives IGNORE.
C5_OnlyExactRespond ==
    (gen.pc = "returned" /\ gen.failed = "none")
    => /\ gen.result \in {RESPOND, IGNORE}
       /\ gen.result = RESPOND
            <=> ( /\ gen.found
                  /\ gen.hasText
                  /\ ToUpperCase(Trim(gen.answer)) = RESPOND )
       /\ gen.result = RESPOND
            <=> ( /\ gen.hasText
                  /\ gen.answer \in
                       { <<"R", "E", "S", "P", "O", "N", "D">>,
                         <<" ", "r", "e", "s", "p", "o", "n", "d", "\n">>,
                         <<"R", "e", "s", "p", "o", "n", "d">> } )

\* the answer " respond\n" is taken as RESPOND
C5_Witness ==
    /\ gen.pc = "returned"
    /\ gen.answer = <<" ", "r", "e", "s", "p", "o", "n", "d", "\n">>
    /\ gen.result = RESPOND

\* C6: the records of a chat's history are in the order in which the
\* messages were taken in (message ids count the arrivals), whatever the
\* interleaving of their tasks.  (Refuted: with TG_TRADER set the handler
\* awaits the recommender backend before handleMessage appends.)
C6_HistoryInArrivalOrder ==
    \A c \in DOMAIN interestChats :
        \A i, j \in 1..Len(interestChats[c].messages) :
            i < j => interestChats[c].messages[i].message_id
                       < interestChats[c].messages[j].message_id

\* C7: the chunks of one response are sent in their order and one after
\* another: at most one send of a response is in flight, every earlier chunk
\* has been accepted by then, and the accepted chunks are in their order,
\* whatever the other tasks do.
C7_ChunksSentInSequence ==
    \A t \in TaskIds :
        /\ Cardinality(InflightChunks(t)) <= 1
        /\ \A s \in InflightChunks(t) :
             \A n \in 1..(s.chunk - 1) :
                 \E i \in DeliveredChunks(t) : delivered[i].chunk = n
        /\ \A i, j \in DeliveredChunks(t) :
             i < j => delivered[i].chunk < delivered[j].chunk

\* the second chunk of one response is in flight while a chunk of another
\* task's response is in flight too
C7_Witness ==
    \E t, u \in TaskIds :
        /\ t # u
        /\ \E s \in InflightChunks(t) : s.chunk = 2
        /\ InflightChunks(u) # {}

\* C8: every chunk the transport accepted is recorded as a memory by the
\* time the handling of the inbound message ends, also when a later send or
\* a memory write fails.  (Refuted: the memories are written only after
\* every send has succeeded, and the first failure ends the handling.)
C8_AcceptedChunksRecorded ==
    \A t \in TaskIds :
        task[t].pc = "done"
        => \A i \in DeliveredChunks(t) :
               \E m \in ResponseMemories(t) : m.chunk = delivered[i].chunk

\* the action the response of a task carries (its content.action)
OwnAction(t) ==
    CASE task[t].resp = "one" -> "NONE"
      [] task[t].resp = "two" -> "FOLLOW_ROOM"
      [] task[t].resp = "three" -> "NONE"
      [] OTHER -> "none"

\* C9: of the k chunks of a response only the first is sent as a reply to
\* the inbound message, and of its k memory records the first k - 1 carry
\* the continuation marker and the last the response's own action.
C9_ReplyAndContinuation ==
    \A t \in TaskIds :
        /\ \A s \in InflightChunks(t) \cup
                    {delivered[i] : i \in DeliveredChunks(t)} :
             s.reply_to = IF s.chunk = 1 THEN task[t].msg.message_id ELSE 0
        /\ LET k == Cardinality(DeliveredChunks(t))
           IN  (k > 0 /\ task[t].recorded = k /\ task[t].pc # "sendMessage")
               => /\ {m.chunk : m \in ResponseMemories(t)} = 1..k
                  /\ Cardinality(ResponseMemories(t)) = k
                  /\ \A m \in ResponseMemories(t) :
                       m.action = IF m.chunk < k THEN "CONTINUE"
                                  ELSE OwnAction(t)

\* a response of three chunks, all sent and all recorded
C9_Witness ==
    /\ task[1].resp = "three"
    /\ Cardinality(DeliveredChunks(1)) = 3
    /\ task[1].recorded = 3
    /\ \E m \in ResponseMemories(1) : m.chunk = 2 /\ m.action = "CONTINUE"

\* C10: joining the chunks splitMessage returns with newlines gives back the
\* text.  (Refuted: an empty line met while the current chunk is empty is
\* dropped.)
C10_JoinReconstructsText ==
    fn.pc = "returned" => JoinLines(fn.ret) = fn.text

Sends(t) ==
    {s \in inflight : s.task = t}
        \cup {delivered[i] : i \in {j \in 1..Len(delivered) :
                                        delivered[j].task = t}}

\* isGroupAuthorized lets the message of task t through
PassesAllowList(t) ==
    ~( /\ config.shouldOnlyJoinInAllowedGroups
       /\ task[t].msg.chat.id \notin {GroupChat.id} )

RespondedWithText(t) ==
    /\ task[t].decision = "RESPOND"
    /\ task[t].resp \in {"one", "two", "three"}

\* C12 (as stated): nothing is sent and no response memory is written for an
\* inbound message unless decide returned RESPOND for it and the generated
\* response has a non-empty text.  (Refuted: for a message of a chat that is
\* not on the allow-list the farewell notice is sent before decide runs.)
C12_NothingSentUnlessRespond ==
    \A t \in TaskIds :
        (Sends(t) # {} \/ ResponseMemories(t) # {}) => RespondedWithText(t)

\* C12 (amended): the same for every inbound message that isGroupAuthorized
\* let through: with decision IGNORE, or a missing or empty generated
\* response, nothing is sent and no response memory is written.
C12_NothingSentUnlessRespondOnceAuthorized ==
    \A t \in TaskIds :
        (task[t].pc # "idle" /\ PassesAllowList(t))
        => ((Sends(t) # {} \/ ResponseMemories(t) # {})
               => RespondedWithText(t))

\* one message ended with no usable response and nothing sent, while the
\* response to the other has been sent
C12_Witness ==
    \E t, u \in TaskIds :
        /\ task[t].outcome = "noResponse"
        /\ task[t].decision = "RESPOND"
        /\ Sends(t) = {}
        /\ ResponseMemories(t) = {}
        /\ task[u].decision = "RESPOND"
        /\ Sends(u) # {}

\* the records of the tracker made from message t
TrackedRecords(t) ==
    {<<c, i>> \in UNION {{c} \X (1..Len(interestChats[c].messages)) :
                            c \in DOMAIN interestChats} :
        interestChats[c].messages[i].message_id = t}

\* the memory records written for message t
MemoriesOf(t) == {m \in memories : m.msg = t}

\* C13: a message dropped by the filter (a bot's under the ignore-bots
\* policy, a private chat's under the ignore-direct-messages policy, or one
\* with no text, no caption and no image description) has no record in the
\* tracker and no memory record, was never decided on, and nothing was sent
\* for it.
C13_DroppedLeavesNoTrace ==
    \A t \in TaskIds :
        task[t].outcome = "dropped"
        => /\ TrackedRecords(t) = {}
           /\ MemoriesOf(t) = {}
           /\ ~Decided(t)
           /\ Sends(t) = {}

\* a bot's message dropped under the ignore-bots policy in a chat whose
\* history holds another message
C13_Witness ==
    \E t, u \in TaskIds :
        /\ task[t].outcome = "dropped"
        /\ config.shouldIgnoreBotMessages
        /\ "from" \in DOMAIN task[t].msg
        /\ task[t].msg.from.is_bot
        /\ task[t].msg.chat = GroupChat
        /\ TrackedRecords(u) # {}

\* the inbound memory of message t is being written or has been written
PassedFilter(t) ==
    \/ task[t].pc = "createMemory"
    \/ \E m \in MemoriesOf(t) : m.kind = "inbound"

\* C14: every inbound message that passed the filter has a record in its
\* chat's history, appended before its memory record is written, also when
\* its only content is an image description.  (Refuted: a photo without a
\* caption passes with its description but is never tracked, since the
\* tracker update requires a text or a caption.)
C14_PassedMessagesAreTracked ==
    \A t \in TaskIds :
        PassedFilter(t)
        => \E p \in TrackedRecords(t) : p[1] = task[t].msg.chat.id

\* C15: a failure of a call the pipeline delegates never leaves the message
\* handler, and the error notice is attempted for it exactly when the error
\* is not a 403.  (Refuted: handleMessage catches the failure itself, so the
\* handler's catch, which would send the notice, never runs.)
C15_NoticeUnlessForbidden ==
    \A t \in TaskIds :
        task[t].error # "none"
        => /\ task[t].pc = "done"
           /\ (\E s \in Sends(t) : s.kind = "errorNotice")
                <=> task[t].error # "403"

\* processImage of message t caught a failure and returned null
ImageFailed(t) == task[t].image \in {"getFileLinkFails", "describeImageFails"}

\* C16: when getting or describing the image of a message that has a
\* caption fails, the message is not dropped: its inbound memory is written
\* with the caption alone, and, unless another call fails first,
\* _shouldRespond is called for it.
C16_ImageFailureContinuesWithText ==
    \A t \in TaskIds :
        (ImageFailed(t) /\ MessageText(task[t].msg) # <<>>)
        => /\ task[t].outcome # "dropped"
           /\ \A m \in MemoriesOf(t) :
                m.kind = "inbound" => m.text = task[t].msg.caption
           /\ \/ task[t].pc = "createMemory"
              \/ task[t].error # "none" /\ ~Decided(t)
              \/ \E m \in MemoriesOf(t) : m.kind = "inbound"
           /\ \/ task[t].pc \in {"createMemory", "composeState",
                                 "updateRecentMessageState"}
              \/ task[t].error # "none" /\ ~Decided(t)
              \/ Decided(t)

\* describeImage failed for a captioned photo; its memory holds the caption
\* and _shouldRespond has been called
C16_Witness ==
    \E t \in TaskIds :
        /\ task[t].image = "describeImageFails"
        /\ \E m \in MemoriesOf(t) :
             m.kind = "inbound" /\ m.text = <<"p", "i", "c">>
        /\ Decided(t)

\* every send, issued or accepted, to chat c
SendsTo(c) ==
    {s \in inflight : s.chat = c}
        \cup {delivered[i] : i \in {j \in 1..Len(delivered) :
                                        delivered[j].chat = c}}

\* C17: with the allow-list on, the farewell notice is sent at most once to
\* a chat that is not on the list, and once it has been accepted nothing
\* more is sent to that chat.  (Refuted: isGroupAuthorized keeps no record
\* of the farewell, and answers every message of such a chat with it.)
C17_FarewellOnceThenSilence ==
    config.shouldOnlyJoinInAllowedGroups
    => \A c \in ChatIds \ AllowedGroupIds :
           /\ Cardinality({s \in SendsTo(c) : s.kind = "farewell"}) <= 1
           /\ \A i \in 1..Len(delivered) :
                (delivered[i].chat = c /\ delivered[i].kind = "farewell")
                => /\ \A j \in (i + 1)..Len(delivered) : delivered[j].chat # c
                   /\ \A s \in inflight : s.chat # c

\* the ChatState of chat c, if there is one
ChatStateOf(c) ==
    IF c \in DOMAIN interestChats
    THEN [present |-> TRUE, state |-> interestChats[c]]
    ELSE [present |-> FALSE]

\* C18: a step that changes the ChatState of a chat (creates it, appends a
\* record, changes currentHandler or lastMessageSent) is a step of a task
\* whose message is of that chat; the other chats' states stay as they are.
C18_OnlyOwnChatStateChanges ==
    [][ \A c \in ChatIds :
            ChatStateOf(c)' # ChatStateOf(c)
            => \A t \in TaskIds :
                   task'[t] # task[t] => task'[t].msg.chat.id = c ]_vars

\* both chats have a state, each with one message
C18_Witness ==
    /\ DOMAIN interestChats = {"-1001", "42"}
    /\ Len(interestChats["-1001"].messages) = 1
    /\ Len(interestChats["42"].messages) = 1
    /\ interestChats["-1001"].lastMessageSent
         # interestChats["42"].lastMessageSent

\* s is a prefix of u
IsPrefix(s, u) == Len(s) <= Len(u) /\ SubSeq(u, 1, Len(s)) = s

\* C19: a ChatState, once created, is never removed; it is created with the
\* one record of the first tracked message of its chat; and a step changes a
\* history only by appending one record at its end, so that every earlier
\* history is a prefix of every later one.
C19_HistoryAppendOnly ==
    [][ \A c \in ChatIds :
            /\ c \in DOMAIN interestChats => c \in DOMAIN interestChats'
            /\ (c \notin DOMAIN interestChats /\ c \in DOMAIN interestChats')
                 => Len(interestChats'[c].messages) = 1
            /\ (c \in DOMAIN interestChats
                  /\ interestChats'[c] # interestChats[c])
                 => /\ IsPrefix(interestChats[c].messages,
                                interestChats'[c].messages)
                    /\ Len(interestChats'[c].messages)
                         = Len(interestChats[c].messages) + 1 ]_vars

\* the history of the private chat holds the records of two messages
C19_Witness ==
    /\ "42" \in DOMAIN interestChats
    /\ Len(interestChats["42"].messages) = 2
    /\ interestChats["42"].messages[1].message_id = 1
    /\ interestChats["42"].messages[2].message_id = 2

-----------------------------------------------------------------------------
(* cosineSimilarity, called on its own                                     *)

\* String.prototype.toLowerCase
ToLowerChar(c) ==
    IF \E i \in 1..Len(UpperCase) : UpperCase[i] = c
    THEN LowerCase[CHOOSE i \in 1..Len(UpperCase) : UpperCase[i] = c]
    ELSE c

ToLowerCase(s) == [i \in 1..Len(s) |-> ToLowerChar(s[i])]

Digits == {"0", "1", "2", "3", "4", "5", "6", "7", "8", "9"}

\* the class [\w\s'_-]: the characters the first replace leaves alone
IsKept(c) ==
    \/ \E i \in 1..Len(LowerCase) : LowerCase[i] = c \/ UpperCase[i] = c
    \/ c \in Digits
    \/ IsSpace(c)
    \/ c \in {"'", "_", "-"}

\* .replace(/[^\w\s'_-]/g, ' ')
ReplacePunctuation(s) == [i \in 1..Len(s) |-> IF IsKept(s[i]) THEN s[i] ELSE " "]

\* .replace(/\s+/g, ' ')
RECURSIVE CollapseSpaces(_)
CollapseSpaces(s) ==
    IF s = <<>> THEN <<>>
    ELSE IF IsSpace(Head(s))
    THEN <<" ">> \o CollapseSpaces(TrimLeft(s))
    ELSE <<Head(s)>> \o CollapseSpaces(Tail(s))

preprocessText(text) ==
    Trim(CollapseSpaces(ReplacePunctuation(ToLowerCase(text))))

\* text.split(" ")
RECURSIVE SplitSpaces(_)
SplitSpaces(s) ==
    LET sps == {i \in 1..Len(s) : s[i] = " "}
    IN  IF sps = {}
        THEN <<s>>
        ELSE LET i == CHOOSE k \in sps : \A j \in sps : k <= j
             IN  <<SubSeq(s, 1, i - 1)>> \o SplitSpaces(SubSeq(s, i + 1, Len(s)))

LongerThanOne(word) == Len(word) > 1

\* text.split(" ").filter((word) => word.length > 1)
getWords(text) == SelectSeq(SplitSpaces(text), LongerThanOne)

\* freq[word] || 0
Freq(words, word) == Cardinality({i \in 1..Len(words) : words[i] = word})

Max2(a, b) == IF a >= b THEN a ELSE b

\* Math.max of three numbers
Max3(a, b, c) == Max2(a, Max2(b, c))

\* the sum of f[w] over the words w of a set
RECURSIVE SumOver(_, _)
SumOver(f, ws) ==
    IF ws = {} THEN 0
    ELSE LET w == CHOOSE x \in ws : TRUE IN f[w] + SumOver(f, ws \ {w})

\* the term the forEach adds to dotProduct for one word
DotTerm(val1, val2, val3, threeWay) ==
    IF threeWay
    THEN Max3(val1 * val2, val2 * val3, val1 * val3)
    ELSE val1 * val2

\* cosineSimilarity.  The value returned is 0 (zero), or the quotient of
\* dotProduct by a product of two square roots, given here by dotProduct
\* and the square of that product: with non-negative operands
\* sqrt(x) * sqrt(y) is the square root of x * y, and the greatest of three
\* such products is the square root of the greatest x * y.
cosineSimilarity(text1, text2, text3) ==
    LET words1 == getWords(preprocessText(text1))
        words2 == getWords(preprocessText(text2))
        words3 == IF text3 # <<>> THEN getWords(preprocessText(text3))
                  ELSE <<>>
        threeWay == words3 # <<>>
        uniqueWords == {words1[i] : i \in 1..Len(words1)}
                         \cup {words2[i] : i \in 1..Len(words2)}
                         \cup {words3[i] : i \in 1..Len(words3)}
        dotProduct ==
            SumOver([w \in uniqueWords |->
                        DotTerm(Freq(words1, w), Freq(words2, w),
                                Freq(words3, w), threeWay)],
                    uniqueWords)
        magnitude1 == SumOver([w \in uniqueWords |->
                                  Freq(words1, w) * Freq(words1, w)],
                              uniqueWords)
        magnitude2 == SumOver([w \in uniqueWords |->
                                  Freq(words2, w) * Freq(words2, w)],
                              uniqueWords)
        magnitude3 == IF threeWay
                      THEN SumOver([w \in uniqueWords |->
                                       Freq(words3, w) * Freq(words3, w)],
                                   uniqueWords)
                      ELSE 1
    IN  IF magnitude1 = 0 \/ magnitude2 = 0 \/ (threeWay /\ magnitude3 = 0)
        THEN [zero |-> TRUE, dotProduct |-> 0, squaredDivisor |-> 1]
        ELSE IF ~threeWay
        THEN [zero |-> FALSE, dotProduct |-> dotProduct,
              squaredDivisor |-> magnitude1 * magnitude2]
        ELSE [zero |-> FALSE, dotProduct |-> dotProduct,
              squaredDivisor |-> Max3(magnitude1 * magnitude2,
                                      magnitude2 * magnitude3,
                                      magnitude1 * magnitude3)]

\* the words the texts are made of, as typed
TypedWords == {<<"a", "a">>, <<"B", "b", "!">>, <<"c">>}

\* the words of ws joined by single spaces
RECURSIVE JoinWords(_)
JoinWords(ws) ==
    IF ws = <<>> THEN <<>>
    ELSE IF Len(ws) = 1 THEN ws[1]
    ELSE ws[1] \o <<" ">> \o JoinWords(Tail(ws))

SimilarityTexts ==
    {JoinWords(ws) : ws \in UNION {[1..n -> TypedWords] : n \in 0..MaxWords}}

CosineSimilarityCall ==
    /\ fn.pc = "cosineCalled"
    /\ fn' = [fn EXCEPT !.pc = "cosineReturned",
                        !.ret = cosineSimilarity(fn.text1, fn.text2, fn.text3)]
    /\ UNCHANGED <<config, inputs, interestChats, memories, inflight,
                   delivered, leftChats, now, nextMsg, task, gen>>

\* text3 is "" when the third argument is left out (the code treats both
\* alike)
InitCosine ==
    /\ config = DefaultConfig
    /\ inputs = [messages |-> {}, responses |-> {}]
    /\ PipelineInit
    /\ memories = {}
    /\ gen = GenIdle
    /\ \E text1 \in SimilarityTexts, text2 \in SimilarityTexts,
          text3 \in SimilarityTexts :
         fn = [pc |-> "cosineCalled", text1 |-> text1, text2 |-> text2,
               text3 |-> text3,
               ret |-> [zero |-> TRUE, dotProduct |-> 0, squaredDivisor |-> 1]]

NextCosine == CosineSimilarityCall

SpecCosine == InitCosine /\ [][NextCosine]_vars

\* C20: the value cosineSimilarity returns is within [0, 1], with two texts
\* and with three: dotProduct is not negative and its square is not greater
\* than the square of the divisor.  (Refuted with three texts: the terms of
\* dotProduct come from different pairs of texts, the divisor from one.)
C20_SimilarityWithinUnitInterval ==
    (fn.pc = "cosineReturned" /\ ~fn.ret.zero)
    => /\ fn.ret.dotProduct >= 0
       /\ fn.ret.dotProduct * fn.ret.dotProduct <= fn.ret.squaredDivisor

-----------------------------------------------------------------------------
(* stringToUuid, called on its own                                         *)

\* A 32-bit integer is held as its two 16-bit halves, hi * 2^16 + lo in
\* two's complement, so that no intermediate value leaves the range of the
\* integers of the checker.
Half == 65536

\* str.charCodeAt(i) for the characters of the strings checked
CharCode(c) ==
    IF \E i \in 1..Len(LowerCase) : LowerCase[i] = c
    THEN 96 + (CHOOSE i \in 1..Len(LowerCase) : LowerCase[i] = c)
    ELSE CASE c = " " -> 32
           [] c = "-" -> 45
           [] c = "0" -> 48
           [] c = "2" -> 50
           [] c = "4" -> 52
           [] OTHER -> 63

\* hash = ((hash << 5) - hash) + char; hash = hash & hash
\* that is hash * 31 + char, wrapped to 32 bits
HashStep(hash, char) ==
    LET lo == hash.lo * 31 + char
        hi == hash.hi * 31 + (lo \div Half)
    IN  [hi |-> hi % Half, lo |-> lo % Half]

\* the for loop over the characters of str
RECURSIVE HashLoop(_, _, _)
HashLoop(str, i, hash) ==
    IF i > Len(str) THEN hash
    ELSE HashLoop(str, i + 1, HashStep(hash, CharCode(str[i])))

IsNegative(hash) == hash.hi >= Half \div 2

\* (mutant) the sign of the hash is kept
MathAbsKeepingSign(hash) ==
    IF IsNegative(hash)
    THEN [neg |-> TRUE,
          hi |-> (Half - 1 - hash.hi) + (IF hash.lo = 0 THEN 1 ELSE 0),
          lo |-> (Half - hash.lo) % Half]
    ELSE [neg |-> FALSE, hi |-> hash.hi, lo |-> hash.lo]

\* Math.abs(hash): a number, not a 32-bit integer, so that the absolute
\* value of -2^31 is 2^31
MathAbs(hash) ==
    IF IsNegative(hash)
    THEN [neg |-> FALSE,
          hi |-> (Half - 1 - hash.hi) + (IF hash.lo = 0 THEN 1 ELSE 0),
          lo |-> (Half - hash.lo) % Half]
    ELSE [neg |-> FALSE, hi |-> hash.hi, lo |-> hash.lo]

HexDigits ==
    <<"0", "1", "2", "3", "4", "5", "6", "7", "8", "9",
      "a", "b", "c", "d", "e", "f">>

\* the hexadecimal digits of a natural number, without leading zeros
RECURSIVE ToHex(_)
ToHex(n) ==
    IF n < 16 THEN <<HexDigits[n + 1]>>
    ELSE ToHex(n \div 16) \o <<HexDigits[(n % 16) + 1]>>

\* String.prototype.padStart
PadStart(s, targetLength, c) ==
    IF Len(s) >= targetLength THEN s
    ELSE Repeat(c, targetLength - Len(s)) \o s

\* Number.prototype.toString(16)
NumberToString16(number) ==
    (IF number.neg THEN <<"-">> ELSE <<>>)
      \o (IF number.hi > 0
          THEN ToHex(number.hi) \o PadStart(ToHex(number.lo), 4, "0")
          ELSE ToHex(number.lo))

\* String.prototype.slice(from, to), positions counted from 0
Slice(s, from, to) == SubSeq(s, from + 1, IF to < Len(s) THEN to ELSE Len(s))

stringToUuid(str) ==
    LET hash == HashLoop(str, 1, [hi |-> 0, lo |-> 0])
        hashHex == PadStart(NumberToString16(MathAbs(hash)), 32, "0")
    IN  Slice(hashHex, 0, 8) \o <<"-">> \o Slice(hashHex, 8, 12) \o <<"-">>
          \o Slice(hashHex, 12, 16) \o <<"-">> \o Slice(hashHex, 16, 20)
          \o <<"-">> \o Slice(hashHex, 20, 32)

\* the strings hashed: every short string over a, z and 0, a chat id, the
\* room name of generateShouldRespond, and strings whose hash wraps
\* (zzzzzz and telegram hash to negative numbers, xfjfxtf to -2^31)
IdStrings ==
    UNION {[1..n -> {"a", "z", "0"}] : n \in 0..MaxIdLen}
      \cup { <<"4", "2">>,
             <<"s", "h", "o", "u", "l", "d", "-",
               "r", "e", "s", "p", "o", "n", "d">>,
             <<"h", "e", "l", "l", "o", " ", "w", "o", "r", "l", "d">>,
             <<"z", "z", "z", "z", "z", "z">>,
             <<"t", "e", "l", "e", "g", "r", "a", "m">>,
             <<"x", "f", "j", "f", "x", "t", "f">> }

\* stringToUuid(str) is called, for the first or for the second time
StringToUuidCall ==
    /\ fn.pc = "stringToUuid"
    /\ fn.calls < 2
    /\ fn' = [fn EXCEPT !.calls = @ + 1,
                        !.previous = fn.ret,
                        !.ret = stringToUuid(fn.str)]
    /\ UNCHANGED <<config, inputs, interestChats, memories, inflight,
                   delivered, leftChats, now, nextMsg, task, gen>>

InitUuid ==
    /\ config = DefaultConfig
    /\ inputs = [messages |-> {}, responses |-> {}]
    /\ PipelineInit
    /\ memories = {}
    /\ gen = GenIdle
    /\ \E str \in IdStrings :
         fn = [pc |-> "stringToUuid", str |-> str, calls |-> 0,
               previous |-> <<>>, ret |-> <<>>]

NextUuid == StringToUuidCall

SpecUuid == InitUuid /\ [][NextUuid]_vars

\* C21: stringToUuid returns the same identifier on every call with the same
\* string, and the identifier has 36 characters: hyphens at positions 9, 14,
\* 19 and 24 and lowercase hexadecimal digits everywhere else, also when the
\* wrapped hash is negative or -2^31.
C21_UuidStableAndCanonical ==
    /\ fn.calls >= 1
         => /\ Len(fn.ret) = 36
            /\ \A i \in 1..Len(fn.ret) :
                 IF i \in {9, 14, 19, 24}
                 THEN fn.ret[i] = "-"
                 ELSE fn.ret[i] \in {"0", "1", "2", "3", "4", "5", "6", "7",
                                     "8", "9", "a", "b", "c", "d", "e", "f"}
    /\ fn.calls = 2 => fn.ret = fn.previous

\* the string whose hash is -2^31, hashed twice
C21_Witness ==
    /\ fn.calls = 2
    /\ fn.str = <<"x", "f", "j", "f", "x", "t", "f">>
    /\ fn.ret = <<"0", "0", "0", "0", "0", "0", "0", "0", "-",
                  "0", "0", "0", "0", "-", "0", "0", "0", "0", "-",
                  "0", "0", "0", "0", "-",
                  "0", "0", "0", "0", "8", "0", "0", "0", "0", "0", "0", "0">>

-----------------------------------------------------------------------------
(* composeContext, called on its own                                       *)

\* JavaScript values: the type, the characters of a string, and the own
\* properties of an object or an array as <<key, value>> pairs in order
JsUndefined == [type |-> "undefined", str |-> <<>>, entries |-> <<>>]

JsNull == [type |-> "null", str |-> <<>>, entries |-> <<>>]

JsString(s) == [type |-> "string", str |-> s, entries |-> <<>>]

JsObject(entries) == [type |-> "object", str |-> <<>>, entries |-> entries]

JsArray(items) ==
    [type |-> "array", str |-> <<>>,
     entries |-> [i \in 1..Len(items) |-> <<<<HexDigits[i]>>, items[i]>>]]

\* the exception of a property read on null
TypeError == [type |-> "TypeError", str |-> <<>>, entries |-> <<>>]

\* acc[key]: a property read raises on null, gives undefined for a key the
\* value does not have (the keys checked are letters, which no string,
\* array or prototype defines)
GetProperty(acc, key) ==
    IF acc.type = "null" THEN TypeError
    ELSE IF \E i \in 1..Len(acc.entries) : acc.entries[i][1] = key
    THEN acc.entries[CHOOSE i \in 1..Len(acc.entries) :
                       acc.entries[i][1] = key][2]
    ELSE JsUndefined

\* path.reduce((acc, key) => acc === undefined ? undefined : acc[key], obj)
RECURSIVE Reduce(_, _, _)
Reduce(acc, path, i) ==
    IF i > Len(path) \/ acc.type = "TypeError" THEN acc
    ELSE IF acc.type = "undefined" THEN Reduce(JsUndefined, path, i + 1)
    ELSE Reduce(GetProperty(acc, path[i]), path, i + 1)

getNestedValue(obj, path) == Reduce(obj, path, 1)

\* ss.join(sep) for strings
RECURSIVE JoinWith(_, _)
JoinWith(ss, sep) ==
    IF ss = <<>> THEN <<>>
    ELSE IF Len(ss) = 1 THEN ss[1]
    ELSE ss[1] \o sep \o JoinWith(Tail(ss), sep)

\* String(value), and Array.prototype.join, which writes null and undefined
\* elements as empty strings
RECURSIVE StringOf(_)
RECURSIVE ArrayJoin(_, _)
ArrayJoin(value, sep) ==
    JoinWith([i \in 1..Len(value.entries) |->
                IF value.entries[i][2].type \in {"null", "undefined"}
                THEN <<>>
                ELSE StringOf(value.entries[i][2])], sep)

StringOf(value) ==
    CASE value.type = "string" -> value.str
      [] value.type = "null" -> <<"n", "u", "l", "l">>
      [] value.type = "undefined" ->
           <<"u", "n", "d", "e", "f", "i", "n", "e", "d">>
      [] value.type = "array" -> ArrayJoin(value, <<",">>)
      [] OTHER -> <<"[", "o", "b", "j", "e", "c", "t", " ",
                    "O", "b", "j", "e", "c", "t", "]">>

\* JSON.stringify(value), for strings that need no escaping
RECURSIVE JSONStringify(_)
JSONStringify(value) ==
    CASE value.type = "string" -> <<"\"">> \o value.str \o <<"\"">>
      [] value.type = "array" ->
           <<"[">> \o JoinWith([i \in 1..Len(value.entries) |->
                                  JSONStringify(value.entries[i][2])],
                               <<",">>) \o <<"]">>
      [] value.type = "object" ->
           <<"{">> \o JoinWith([i \in 1..Len(value.entries) |->
                                  <<"\"">> \o value.entries[i][1]
                                    \o <<"\"", ":">>
                                    \o JSONStringify(value.entries[i][2])],
                               <<",">>) \o <<"}">>
      [] OTHER -> <<"n", "u", "l", "l">>

\* the formatters passed: { up: (value) => String(value).toUpperCase() }
FormatterNames == {<<"u", "p">>}

ApplyFormatter(formatterName, value) == ToUpperCase(StringOf(value))

\* formatterName is <<>> when the placeholder has no |formatter part
formatValue(value, formatterName) ==
    IF formatterName # <<>> /\ formatterName \in FormatterNames
    THEN ApplyFormatter(formatterName, value)
    ELSE IF value.type \in {"null", "undefined"} THEN <<>>
    ELSE IF value.type = "array" THEN ArrayJoin(value, <<",", " ">>)
    ELSE IF value.type = "object" THEN JSONStringify(value)
    ELSE StringOf(value)

\* variable.trim().split('.')
RECURSIVE SplitDots(_)
SplitDots(s) ==
    LET dots == {i \in 1..Len(s) : s[i] = "."}
    IN  IF dots = {}
        THEN <<s>>
        ELSE LET i == CHOOSE d \in dots : \A e \in dots : d <= e
             IN  <<SubSeq(s, 1, i - 1)>>
                   \o SplitDots(SubSeq(s, i + 1, Len(s)))

CharAt(t, i) == IF i \in 1..Len(t) THEN t[i] ELSE ""

\* the last position of the longest run from position from of characters
\* outside stop: a greedy character class of the regular expression
RunEnd(t, from, stop) ==
    LET bad == {k \in from..Len(t) : t[k] \in stop}
    IN  IF bad = {} THEN Len(t)
        ELSE (CHOOSE k \in bad : \A l \in bad : k <= l) - 1

\* /\{\{([^}|]+)(?:\|([^}]+))?\}\}/ tried at position i.  Both classes are
\* followed by a character they exclude, so giving back characters never
\* turns a failure into a match.
MatchAt(t, i) ==
    LET vEnd == RunEnd(t, i + 2, {"}", "|"})
        fEnd == RunEnd(t, vEnd + 2, {"}"})
        noMatch == [ok |-> FALSE, variable |-> <<>>, formatter |-> <<>>,
                    last |-> i]
    IN  IF ~(CharAt(t, i) = "{" /\ CharAt(t, i + 1) = "{") \/ vEnd < i + 2
        THEN noMatch
        ELSE IF CharAt(t, vEnd + 1) = "|"
        THEN IF /\ fEnd >= vEnd + 2
                /\ CharAt(t, fEnd + 1) = "}"
                /\ CharAt(t, fEnd + 2) = "}"
             THEN [ok |-> TRUE, variable |-> SubSeq(t, i + 2, vEnd),
                   formatter |-> SubSeq(t, vEnd + 2, fEnd),
                   last |-> fEnd + 2]
             ELSE noMatch
        ELSE IF CharAt(t, vEnd + 1) = "}" /\ CharAt(t, vEnd + 2) = "}"
        THEN [ok |-> TRUE, variable |-> SubSeq(t, i + 2, vEnd),
              formatter |-> <<>>, last |-> vEnd + 2]
        ELSE noMatch

\* (mutant) an unresolved placeholder is rewritten without its formatter
KeepVariableOnly(match, variable) == <<"{", "{">> \o variable \o <<"}", "}">>

\* return match: keep the original {{variable}} if not found
KeepOriginal(match, variable) == match

\* the replacement callback
Replacement(state, defaultValues, match, variable, formatter) ==
    LET path == SplitDots(Trim(variable))
        fromState == getNestedValue(state, path)
        value == IF fromState.type = "undefined"
                 THEN getNestedValue(defaultValues, path)
                 ELSE fromState
    IN  IF value.type = "TypeError" THEN [threw |-> TRUE, out |-> <<>>]
        ELSE IF value.type = "undefined"
        THEN [threw |-> FALSE, out |-> KeepOriginal(match, variable)]
        ELSE [threw |-> FALSE, out |-> formatValue(value, formatter)]

\* template.replace(regex, callback) with the g flag: matches are found
\* from left to right, the text between them is copied, and an exception
\* of the callback ends the call
RECURSIVE Replace(_, _, _, _)
Replace(t, i, state, defaultValues) ==
    IF i > Len(t) THEN [threw |-> FALSE, out |-> <<>>]
    ELSE LET m == MatchAt(t, i)
             r == Replacement(state, defaultValues, SubSeq(t, i, m.last),
                              m.variable, m.formatter)
             rest == Replace(t, m.last + 1, state, defaultValues)
         IN  IF r.threw \/ rest.threw THEN [threw |-> TRUE, out |-> <<>>]
             ELSE IF m.ok THEN [threw |-> FALSE, out |-> r.out \o rest.out]
             ELSE [threw |-> FALSE, out |-> <<t[i]>> \o rest.out]

composeContext(params) ==
    Replace(params.template, 1, params.state, params.defaultValues)

\* the parts templates are made of: placeholders, with the path and the
\* formatter they name, and literal text
Placeholder(text, path, formatter) ==
    [text |-> text, placeholder |-> TRUE, path |-> path,
     formatter |-> formatter]

Literal(text) ==
    [text |-> text, placeholder |-> FALSE, path |-> <<>>,
     formatter |-> <<>>]

TemplatePieces ==
    { Placeholder(<<"{", "{", "a", "}", "}">>, <<<<"a">>>>, <<>>),
      Placeholder(<<"{", "{", "a", ".", "b", "}", "}">>,
                  <<<<"a">>, <<"b">>>>, <<>>),
      Placeholder(<<"{", "{", " ", "a", ".", "b", " ", "|", "u", "p",
                    "}", "}">>, <<<<"a">>, <<"b">>>>, <<"u", "p">>),
      Placeholder(<<"{", "{", "c", "}", "}">>, <<<<"c">>>>, <<>>),
      Placeholder(<<"{", "{", "c", "|", "u", "p", "}", "}">>,
                  <<<<"c">>>>, <<"u", "p">>),
      Literal(<<"x">>),
      Literal(<<":", " ">>),
      Literal(<<"{", "{", "}", "}">>) }

RECURSIVE ConcatTexts(_)
ConcatTexts(pieces) ==
    IF pieces = <<>> THEN <<>>
    ELSE Head(pieces).text \o ConcatTexts(Tail(pieces))

\* state objects: a nested value, a null and a string where the path a.b
\* expects an object, nothing at all, and null and array leaves
States ==
    { JsObject(<<<<<<"a">>, JsObject(<<<<<<"b">>, JsString(<<"v">>)>>>>)>>>>),
      JsObject(<<<<<<"a">>, JsNull>>>>),
      JsObject(<<<<<<"a">>, JsString(<<"s">>)>>>>),
      JsObject(<<>>),
      JsObject(<<<<<<"a">>, JsObject(<<<<<<"b">>, JsNull>>>>)>>,
                 <<<<"c">>, JsArray(<<JsString(<<"p">>),
                                      JsString(<<"q">>)>>)>>>>) }

DefaultValues ==
    { JsObject(<<>>),
      JsObject(<<<<<<"a">>, JsObject(<<<<<<"b">>, JsString(<<"d">>)>>>>)>>,
                 <<<<"c">>, JsString(<<"e">>)>>>>),
      JsObject(<<<<<<"a">>, JsNull>>>>) }

\* composeContext({ state, template, defaultValues, formatters }) is called
ComposeContextCall ==
    /\ fn.pc = "composeCalled"
    /\ fn' = [fn EXCEPT !.pc = "composeReturned",
                        !.ret = composeContext(fn)]
    /\ UNCHANGED <<config, inputs, interestChats, memories, inflight,
                   delivered, leftChats, now, nextMsg, task, gen>>

InitCompose ==
    /\ config = DefaultConfig
    /\ inputs = [messages |-> {}, responses |-> {}]
    /\ PipelineInit
    /\ memories = {}
    /\ gen = GenIdle
    /\ \E n \in 0..MaxPieces : \E pieces \in [1..n -> TemplatePieces] :
       \E state \in States : \E defaultValues \in DefaultValues :
         fn = [pc |-> "composeCalled", pieces |-> pieces,
               template |-> ConcatTexts(pieces), state |-> state,
               defaultValues |-> defaultValues,
               ret |-> [threw |-> FALSE, out |-> <<>>]]

NextCompose == ComposeContextCall

SpecCompose == InitCompose /\ [][NextCompose]_vars

\* The resolution the placeholders are specified to have: a path is walked
\* key by key, and the walk fails, giving undefined, at a key that is absent
\* or at a value that is null or not a container.
RECURSIVE Walk(_, _, _)
Walk(value, path, i) ==
    IF i > Len(path) THEN value
    ELSE IF value.type \notin {"object", "array"} THEN JsUndefined
    ELSE IF \A k \in 1..Len(value.entries) : value.entries[k][1] # path[i]
    THEN JsUndefined
    ELSE Walk(value.entries[CHOOSE k \in 1..Len(value.entries) :
                              value.entries[k][1] = path[i]][2], path, i + 1)

\* the value of state where the path resolves there, else of defaultValues
Resolved(piece) ==
    IF Walk(fn.state, piece.path, 1).type # "undefined"
    THEN Walk(fn.state, piece.path, 1)
    ELSE Walk(fn.defaultValues, piece.path, 1)

Unresolved(piece) == piece.placeholder /\ Resolved(piece).type = "undefined"

\* what a piece of the template becomes in the output
PieceOutput(piece) ==
    IF ~piece.placeholder \/ Unresolved(piece) THEN piece.text
    ELSE formatValue(Resolved(piece), piece.formatter)

RECURSIVE ExpectedOutput(_)
ExpectedOutput(pieces) ==
    IF pieces = <<>> THEN <<>>
    ELSE PieceOutput(Head(pieces)) \o ExpectedOutput(Tail(pieces))

\* C22: in the output of a call that returns, a placeholder whose path is
\* undefined in both state and defaultValues stands as its original text,
\* |formatter included, and every other placeholder of the template is
\* replaced by its formatted value.
C22_UnresolvedPlaceholderKept ==
    (/\ fn.pc = "composeReturned"
     /\ ~fn.ret.threw
     /\ \E i \in 1..Len(fn.pieces) : Unresolved(fn.pieces[i]))
      => fn.ret.out = ExpectedOutput(fn.pieces)

\* {{c|up}}{{a.b}} with only a.b defined becomes {{c|up}}v
C22_Witness ==
    /\ fn.pc = "composeReturned"
    /\ ~fn.ret.threw
    /\ fn.template = <<"{", "{", "c", "|", "u", "p", "}", "}",
                       "{", "{", "a", ".", "b", "}", "}">>
    /\ fn.ret.out = <<"{", "{", "c", "|", "u", "p", "}", "}", "v">>

\* C23: every call of compose returns a string, in which each placeholder
\* has the value of state where its path resolves there and the value of
\* defaultValues where the walk through state fails at any step (absent
\* key, null or non-container on the way); it never raises.
C23_FallbackWithoutRaising ==
    fn.pc = "composeReturned"
      => /\ ~fn.ret.threw
         /\ fn.ret.out = ExpectedOutput(fn.pieces)

\* C24: a group-chat message with neither body text nor caption (a photo
\* that passed the filter through its description), decided while its chat
\* has no active handler, is answered IGNORE without an exception, and
\* nothing is sent for it.  (Refuted: the mention check reads message.text,
\* which such a message does not have, and raises.)
C24_TextlessGroupMessageIgnored ==
    \A t \in TaskIds :
        ( /\ Decided(t)
          /\ task[t].msg.chat.type = "group"
          /\ ~HasTextualContent(task[t].msg)
          /\ NoActiveHandler(task[t].msg.chat.id) )
        => /\ task[t].decision = "IGNORE"
           /\ Sends(t) = {}

\* the message of task t is stopped by isGroupAuthorized: its sender is the
\* bot itself, or the allow-list policy is on and its chat is not listed
FailsGate(t) ==
    \/ "from" \in DOMAIN task[t].msg /\ task[t].msg.from.id = BotInfo.id
    \/ ~PassesAllowList(t)

\* the positions of handleMessage and of the recommender call before it
InPipeline(t) ==
    task[t].pc \notin {"idle", "authReply", "authLeave", "done"}

\* C25: a message is handed to the pipeline only if its sender is not the
\* bot itself and the allow-list policy is off or lists its chat; a message
\* that fails this gate is never in the pipeline, and it leaves no record
\* in the tracker, no memory record, no decision and no generated response.
C25_GateGuardsPipeline ==
    \A t \in TaskIds :
        (task[t].pc # "idle" /\ FailsGate(t))
        => /\ ~InPipeline(t)
           /\ task[t].outcome \in {"none", "unauthorized"}
           /\ TrackedRecords(t) = {}
           /\ MemoriesOf(t) = {}
           /\ ~Decided(t)
           /\ task[t].resp = "none"
           /\ \A s \in Sends(t) : s.kind # "chunk"

\* under the allow-list policy a message of the unlisted chat was turned
\* away with the farewell delivered, and a message of the listed chat has
\* its memory written
C25_Witness ==
    \E t, u \in TaskIds :
        /\ config.shouldOnlyJoinInAllowedGroups
        /\ task[t].outcome = "unauthorized"
        /\ task[u].pc # "idle"
        /\ task[t].msg.chat = PrivateChat
        /\ \E i \in 1..Len(delivered) :
             delivered[i].task = t /\ delivered[i].kind = "farewell"
        /\ task[u].msg.chat = GroupChat
        /\ ~FailsGate(u)
        /\ MemoriesOf(u) # {}

\* C26: currentHandler is unset in every ChatState of the tracker in every
\* reachable state, so the context check of decide is false for every chat
\* the tracker holds.
C26_CurrentHandlerNeverSet ==
    \A c \in DOMAIN interestChats :
        /\ interestChats[c].currentHandler = "undefined"
        /\ ~shouldRespondBasedOnContext(interestChats[c])

\* the group chat's history holds two messages, and one of them, which has
\* a text and no mention, was answered IGNORE by the context check
C26_Witness ==
    /\ GroupChat.id \in DOMAIN interestChats
    /\ Len(interestChats[GroupChat.id].messages) = 2
    /\ \E t \in TaskIds :
         /\ task[t].decision = "IGNORE"
         /\ task[t].msg.chat = GroupChat
         /\ HasTextualContent(task[t].msg)
         /\ ~HasBodyMention(task[t].msg)
         /\ ~task[t].delegated

\* C27: the chunks of one response are delivered to a chat with no chunk
\* of another response to that chat between them.  (Refuted: the tasks of
\* two messages send their chunks independently, each awaiting only its own
\* sends.)
C27_ChunksContiguous ==
    \A i, j, k \in 1..Len(delivered) :
        ( /\ i < j /\ j < k
          /\ delivered[i].kind = "chunk"
          /\ delivered[j].kind = "chunk"
          /\ delivered[k].kind = "chunk"
          /\ delivered[i].task = delivered[k].task
          /\ delivered[j].chat = delivered[i].chat )
        => delivered[j].task = delivered[i].task

====
